---- MODULE Spec2Model ----
(***************************************************************************)
(* Cost tracking engine of novel-to-toon (poc/workflow-0.2.0,              *)
(* scripts/cost_tracker.py): FalCostTracker with its pricing function, its *)
(* ledger (calls, total_cost), its live snapshot file, its summary and    *)
(* export, and the module-level tracker; and the CostTracker of the panel  *)
(* generator of poc/workflow-0.1.0 (scripts/panel_generator.py).           *)
(*                                                                         *)
(* Number representation.  The Python code computes in binary floating     *)
(* point.  Here every USD amount is an integer number of 10^-7 USD (so     *)
(* 0.04 USD is 400000 and round(x, 6) is rounding to a multiple of 10),    *)
(* and a megapixel count is an integer number of 10^-6 MP, i.e. a pixel    *)
(* count.  Decimal arithmetic is exact in this representation; the         *)
(* representation error of IEEE doubles (below 10^-15 USD) is not          *)
(* modelled.                                                               *)
(***************************************************************************)
EXTENDS Integers, Sequences, FiniteSets, TLC

VARIABLES
    calls,       \* FalCostTracker.calls: the ledger, a sequence of APICallRecord
    total_cost,  \* FalCostTracker.total_cost, in 10^-7 USD
    live_file,   \* FalCostTracker.live_file: NONE or the path of the live file
    budget_usd,  \* FalCostTracker.budget_usd, in 10^-7 USD
    live_data,   \* content of the live file on disk
    result,      \* outcome of the last sequential call on the tracker
    query,       \* arguments of a calculate_cost call under study
    price,       \* what calculate_cost returned for query
    pc,          \* position of each concurrent caller inside track
    frame,       \* local variables of each concurrent caller inside track
    global_tracker,  \* the module global _global_tracker: 0 for None, or a reference
    objects,     \* the FalCostTracker instances built for _global_tracker, by reference
    export_file, \* content of the file the last export wrote
    api_calls    \* CostTracker.api_calls of workflow-0.1.0: the calls logged by log_call

vars == <<calls, total_cost, live_file, budget_usd, live_data, result, query, price,
          pc, frame, global_tracker, objects, export_file, api_calls>>

\* ------------------------------------------------------------------ bounds

\* number of track calls made on one tracker in a sequential run
MaxCalls == 2

\* number of callers that invoke track concurrently
NThreads == 2

\* ------------------------------------------------------------- input sets

NONE == "None"

FLAT_MODEL == "fal-ai/flux-pro/kontext"

PER_MP_MODEL == "fal-ai/flux-2/flash"

TIERED_MODEL == "fal-ai/flux-2-pro"

UNKNOWN_MODEL == "fal-ai/unlisted-model"

\* model identifiers passed by callers: flat, per-megapixel, tiered, not in the table
Models == {FLAT_MODEL, PER_MP_MODEL, TIERED_MODEL, UNKNOWN_MODEL}

Statuses == {"success", "failed", "retried"}

\* widths and heights handed to calculate_cost
Widths == {-2000, 0, 1000, 1024, 2000}

Heights == {-2000, 0, 1000, 1001, 1010, 1440, 2000}

\* <<width, height>> pairs handed to track in a sequential run
TrackDims == {<<1024, 1440>>, <<-2000, -2000>>}

PanelIds == {"s1_p01"}

\* generation_time_ms values handed to track
GenTimes == {4200}

\* phase values handed to track: None (the default), the empty string, a name
Phases == {NONE, "", "panel_generation"}

\* DEFAULT_BUDGET_USD = 10.0
DEFAULT_BUDGET_USD == 100000000

LIVE_COST_FILE == "reports/cost_live.json"

\* outcomes of the file system calls of _save_live
IoOutcomes == {"ok", "makedirs_error", "open_error", "write_error"}

\* --------------------------------------------------------------- rounding

\* Python's round(x, n) for a value x and the step that n decimals stand for
\* in the integer representation: the nearest multiple of step, ties to even.
Round(x, step) ==
    LET q == x \div step
        r == x % step
    IN  IF 2 * r > step \/ (2 * r = step /\ q % 2 = 1)
        THEN (q + 1) * step
        ELSE q * step

\* Python's int(x) of a value given in millionths: truncation toward zero.
IntOfMillionths(x) ==
    IF x >= 0 THEN x \div 1000000 ELSE -((-x) \div 1000000)

Max(a, b) == IF a >= b THEN a ELSE b

\* ---------------------------------------------------------------- pricing

\* FalCostTracker.PRICING.  A flat price is a number in Python and a record
\* with the one field "flat" here; the dict entries keep their keys.
PRICING ==
    [m \in {"fal-ai/flux-pro/kontext", "fal-ai/flux-pro/kontext/multi",
            "fal-ai/flux-pro/kontext/text-to-image"} |-> [flat |-> 400000]]
    @@ [m \in {"fal-ai/flux-pro/kontext/max",
               "fal-ai/flux-pro/kontext/max/multi"} |-> [flat |-> 800000]]
    @@ ("fal-ai/flux-2/flash" :> [per_mp |-> 50000])
    @@ ("fal-ai/flux-2/turbo" :> [per_mp |-> 80000])
    @@ ("fal-ai/flux-2/dev" :> [per_mp |-> 120000])
    @@ ("fal-ai/flux-2-pro" :> [first_mp |-> 300000, additional_mp |-> 150000])
    @@ ("fal-ai/flux-2-flex" :> [per_mp |-> 600000])

\* calculate_megapixels: width * height / 1_000_000, in millionths of a megapixel
calculate_megapixels(width, height) == width * height

\* mp_rounded with a whole megapixel added before the truncation
mp_rounded_whole_added(mp) == Max(1, IntOfMillionths(mp + 1000000))

\* mp_rounded = max(1, int(mp + 0.99)), a whole number of megapixels
mp_rounded(mp) == Max(1, IntOfMillionths(mp + 990000))

\* calculate_cost without the fallback: a model missing from the table is free
calculate_cost_no_fallback(model, width, height) ==
    IF model \notin DOMAIN PRICING
    THEN 0
    ELSE LET pricing == PRICING[model]
             n == mp_rounded(calculate_megapixels(width, height))
         IN  IF "flat" \in DOMAIN pricing
             THEN pricing.flat
             ELSE IF "first_mp" \in DOMAIN pricing
                  THEN pricing.first_mp + (n - 1) * pricing.additional_mp
                  ELSE n * pricing.per_mp

\* calculate_cost with the flat price taken per billed megapixel
calculate_cost_flat_per_mp(model, width, height) ==
    IF model \notin DOMAIN PRICING
    THEN 500000
    ELSE LET pricing == PRICING[model]
             n == mp_rounded(calculate_megapixels(width, height))
         IN  IF "flat" \in DOMAIN pricing
             THEN n * pricing.flat
             ELSE IF "first_mp" \in DOMAIN pricing
                  THEN pricing.first_mp + (n - 1) * pricing.additional_mp
                  ELSE n * pricing.per_mp

\* calculate_cost(model, width, height), in 10^-7 USD
calculate_cost(model, width, height) ==
    IF model \notin DOMAIN PRICING
    THEN 500000
    ELSE LET pricing == PRICING[model]
             n == mp_rounded(calculate_megapixels(width, height))
         IN  IF "flat" \in DOMAIN pricing
             THEN pricing.flat
             ELSE IF "first_mp" \in DOMAIN pricing
                  THEN IF n > 1
                       THEN pricing.first_mp + (n - 1) * pricing.additional_mp
                       ELSE pricing.first_mp
                  ELSE n * pricing.per_mp

\* ---------------------------------------------------------------- tracker

\* track_cost without the status test: every call is priced
track_cost_any_status(model, width, height, status) ==
    calculate_cost(model, width, height)

\* the cost of a call, line 134: priced only when the status is "success"
track_cost(model, width, height, status) ==
    IF status = "success" THEN calculate_cost(model, width, height) ELSE 0

\* the APICallRecord built by track, lines 136-150 (the fields the engine
\* computes or aggregates on); megapixels is kept in millionths
APICallRecord(model, panel_id, generation_time_ms, width, height, phase, status, error_message, cost) ==
    [model              |-> model,
     panel_id           |-> panel_id,
     cost_usd           |-> Round(cost, 10),
     generation_time_ms |-> generation_time_ms,
     image_dimensions   |-> <<width, height>>,
     megapixels         |-> Round(calculate_megapixels(width, height), 10000),
     status             |-> status,
     phase              |-> phase,
     error_message      |-> error_message]

\* AppendRecord with the new record placed first
AppendRecordFirst(ledger, record) == <<record>> \o ledger

\* AppendRecord with the list rebuilt from the new record alone
AppendRecordOverwrite(ledger, record) == <<record>>

\* self.calls.append(record), line 152
AppendRecord(ledger, record) == Append(ledger, record)

\* AddCost with "=" written for "+=": the total is overwritten
AddCostAssign(total, cost) == cost

\* self.total_cost += cost, line 153
AddCost(total, cost) == total + cost

\* ------------------------------------------------------------ aggregation

\* a ledger without its last record
Front(ledger) == SubSeq(ledger, 1, Len(ledger) - 1)

\* an empty Python dict
EmptyDict == [k \in {} |-> 0]

RECURSIVE LongDiv(_, _, _)
\* quotient q and remainder r of num * 10^digits divided by den > 0, found one
\* decimal digit at a time
LongDiv(num, den, digits) ==
    IF digits = 0
    THEN [q |-> num \div den, r |-> num % den]
    ELSE LET p == LongDiv(num, den, digits - 1)
         IN  [q |-> p.q * 10 + (p.r * 10) \div den, r |-> (p.r * 10) % den]

\* Python's round(num / den, digits) in units of 10^-digits, ties to even;
\* the division raises ZeroDivisionError when den is 0
Divide(num, den, digits) ==
    IF den = 0
    THEN [raised |-> TRUE, value |-> 0]
    ELSE LET p == LongDiv(num, den, digits)
         IN  [raised |-> FALSE,
              value  |-> IF 2 * p.r > den \/ (2 * p.r = den /\ p.q % 2 = 1)
                         THEN p.q + 1
                         ELSE p.q]

\* percent_used without the test on the budget
percent_used_unguarded(total, budget) == Divide(total, budget, 3)

\* round((self.total_cost / self.budget_usd) * 100, 1) if self.budget_usd > 0
\* else 0, lines 187 and 242, in tenths of a percent
percent_used(total, budget) ==
    IF budget > 0 THEN Divide(total, budget, 3) ELSE [raised |-> FALSE, value |-> 0]

\* round(total_time_ms / len(self.calls), 2) if self.calls else 0, line 247,
\* in hundredths of a millisecond
average_generation_time_ms(ledger, total_time_ms) ==
    IF ledger # <<>>
    THEN Divide(total_time_ms, Len(ledger), 2)
    ELSE [raised |-> FALSE, value |-> 0]

\* call.phase or "unspecified", lines 170 and 218: None and the empty string
\* are both false in Python
phase_key(call) ==
    IF call.phase = NONE \/ call.phase = "" THEN "unspecified" ELSE call.phase

\* call.model.split("/")[-1], line 177, for the model identifiers in use
short_model(model) ==
    CASE model \in {"fal-ai/flux-pro/kontext"} -> "kontext"
      [] model \in {"fal-ai/flux-pro/kontext/multi",
                    "fal-ai/flux-pro/kontext/max/multi"} -> "multi"
      [] model = "fal-ai/flux-pro/kontext/text-to-image" -> "text-to-image"
      [] model = "fal-ai/flux-pro/kontext/max" -> "max"
      [] model = "fal-ai/flux-2/flash" -> "flash"
      [] model = "fal-ai/flux-2/turbo" -> "turbo"
      [] model = "fal-ai/flux-2/dev" -> "dev"
      [] model = "fal-ai/flux-2-pro" -> "flux-2-pro"
      [] model = "fal-ai/flux-2-flex" -> "flux-2-flex"
      [] model = "fal-ai/unlisted-model" -> "unlisted-model"
      [] OTHER -> model

\* dict.get(key, default)
Get(dict, key, default) == IF key \in DOMAIN dict THEN dict[key] ELSE default

RECURSIVE live_by_phase(_)
\* by_phase of _save_live, lines 165-174: each sum is rounded to 6 decimals
\* as it grows
live_by_phase(ledger) ==
    IF ledger = <<>> THEN EmptyDict
    ELSE LET d    == live_by_phase(Front(ledger))
             call == ledger[Len(ledger)]
             key  == phase_key(call)
             old  == Get(d, key, [count |-> 0, cost_usd |-> 0])
         IN  (key :> [count    |-> old.count + 1,
                      cost_usd |-> Round(old.cost_usd + call.cost_usd, 10)]) @@ d

RECURSIVE live_by_model_short_key(_)
\* by_model of _save_live keyed by the short name of the model
live_by_model_short_key(ledger) ==
    IF ledger = <<>> THEN EmptyDict
    ELSE LET d    == live_by_model_short_key(Front(ledger))
             call == ledger[Len(ledger)]
             key  == short_model(call.model)
             old  == Get(d, key, [short_name |-> key, count |-> 0, cost_usd |-> 0])
         IN  (key :> [short_name |-> old.short_name,
                      count      |-> old.count + 1,
                      cost_usd   |-> Round(old.cost_usd + call.cost_usd, 10)]) @@ d

RECURSIVE live_by_model(_)
\* by_model of _save_live, lines 176-181
live_by_model(ledger) ==
    IF ledger = <<>> THEN EmptyDict
    ELSE LET d    == live_by_model(Front(ledger))
             call == ledger[Len(ledger)]
             old  == Get(d, call.model, [short_name |-> short_model(call.model),
                                         count |-> 0, cost_usd |-> 0])
         IN  (call.model :> [short_name |-> old.short_name,
                             count      |-> old.count + 1,
                             cost_usd   |-> Round(old.cost_usd + call.cost_usd, 10)]) @@ d

\* LiveData with the digest of the first call in place of the last one
LiveDataFirstCall(ledger, total, budget, last_record) ==
    [total_cost_usd |-> Round(total, 1000),
     budget_usd     |-> budget,
     percent_used   |-> percent_used(total, budget).value,
     total_calls    |-> Len(ledger),
     last_call      |-> [model    |-> ledger[1].model,
                         cost_usd |-> ledger[1].cost_usd,
                         panel_id |-> ledger[1].panel_id,
                         status   |-> ledger[1].status],
     by_phase       |-> live_by_phase(ledger),
     by_model       |-> live_by_model(ledger)]

\* the object _save_live serialises, lines 165-198: the totals, the digest of
\* the last call and the rollups by phase and by model (session_id and
\* updated_at, which no computation reads, are left out)
LiveData(ledger, total, budget, last_record) ==
    [total_cost_usd |-> Round(total, 1000),
     budget_usd     |-> budget,
     percent_used   |-> percent_used(total, budget).value,
     total_calls    |-> Len(ledger),
     last_call      |-> [model    |-> last_record.model,
                         cost_usd |-> last_record.cost_usd,
                         panel_id |-> last_record.panel_id,
                         status   |-> last_record.status],
     by_phase       |-> live_by_phase(ledger),
     by_model       |-> live_by_model(ledger)]

RECURSIVE sum_by_model(_)
\* by_model of summary, lines 211-215, before the costs are rounded
sum_by_model(ledger) ==
    IF ledger = <<>> THEN EmptyDict
    ELSE LET d    == sum_by_model(Front(ledger))
             call == ledger[Len(ledger)]
             old  == Get(d, call.model, [count |-> 0, cost_usd |-> 0])
         IN  (call.model :> [count    |-> old.count + 1,
                             cost_usd |-> old.cost_usd + call.cost_usd]) @@ d

RECURSIVE sum_by_phase(_)
\* by_phase of summary, lines 217-222, before the costs are rounded
sum_by_phase(ledger) ==
    IF ledger = <<>> THEN EmptyDict
    ELSE LET d    == sum_by_phase(Front(ledger))
             call == ledger[Len(ledger)]
             key  == phase_key(call)
             old  == Get(d, key, [count |-> 0, cost_usd |-> 0])
         IN  (key :> [count    |-> old.count + 1,
                      cost_usd |-> old.cost_usd + call.cost_usd]) @@ d

\* by_status as an empty dict, without the three keys
by_status_empty == EmptyDict

\* by_status before the loop, line 207
by_status_init == [k \in {"success", "failed", "retried"} |-> 0]

RECURSIVE sum_by_status_known_only(_)
\* by_status counting only the statuses it starts with
sum_by_status_known_only(ledger) ==
    IF ledger = <<>> THEN by_status_init
    ELSE LET d    == sum_by_status_known_only(Front(ledger))
             call == ledger[Len(ledger)]
         IN  IF call.status \in DOMAIN d
             THEN (call.status :> (d[call.status] + 1)) @@ d
             ELSE d

RECURSIVE sum_by_status(_)
\* by_status of summary, line 225
sum_by_status(ledger) ==
    IF ledger = <<>> THEN by_status_init
    ELSE LET d    == sum_by_status(Front(ledger))
             call == ledger[Len(ledger)]
         IN  (call.status :> (Get(d, call.status, 0) + 1)) @@ d

RECURSIVE total_time_ms(_)
\* total_time_ms of summary, line 227
total_time_ms(ledger) ==
    IF ledger = <<>> THEN 0
    ELSE total_time_ms(Front(ledger)) + ledger[Len(ledger)].generation_time_ms

\* the rounding of the group costs to 4 decimals, lines 230-233
round_costs(groups) ==
    [k \in DOMAIN groups |-> [groups[k] EXCEPT !.cost_usd = Round(@, 1000)]]

\* summary with the running total left out of total_cost_usd
summary_no_total(ledger, total, budget) ==
    [total_calls                |-> Len(ledger),
     total_cost_usd             |-> 0,
     budget_usd                 |-> budget,
     percent_used               |-> percent_used(total, budget).value,
     by_model                   |-> round_costs(sum_by_model(ledger)),
     by_phase                   |-> round_costs(sum_by_phase(ledger)),
     by_status                  |-> sum_by_status(ledger),
     total_generation_time_ms   |-> total_time_ms(ledger),
     average_generation_time_ms |->
         average_generation_time_ms(ledger, total_time_ms(ledger)).value]

\* what summary() returns, lines 235-248 (session_id, start_time and
\* end_time, which no computation reads, are left out)
summary(ledger, total, budget) ==
    [total_calls                |-> Len(ledger),
     total_cost_usd             |-> Round(total, 1000),
     budget_usd                 |-> budget,
     percent_used               |-> percent_used(total, budget).value,
     by_model                   |-> round_costs(sum_by_model(ledger)),
     by_phase                   |-> round_costs(sum_by_phase(ledger)),
     by_status                  |-> sum_by_status(ledger),
     total_generation_time_ms   |-> total_time_ms(ledger),
     average_generation_time_ms |->
         average_generation_time_ms(ledger, total_time_ms(ledger)).value]

\* summary() raises when one of its two divisions does
summary_raises(ledger, total, budget) ==
    \/ percent_used(total, budget).raised
    \/ average_generation_time_ms(ledger, total_time_ms(ledger)).raised

\* the live file once open(path, "w") has emptied it and before json.dump
\* has written all of the data
Truncated == [state |-> "truncated", data |-> <<>>]

\* The live file after _save_live ran with the given file system outcome:
\* os.makedirs (line 163) or open (line 200) raising leaves the file as it
\* was, open(..., "w") truncates it, and a failing json.dump (line 201)
\* leaves it incomplete.
FileAfterSave(old, data, io) ==
    CASE io = "ok"          -> [state |-> "complete", data |-> <<data>>]
      [] io = "write_error" -> Truncated
      [] OTHER              -> old

\* _save_live raises exactly when a file system call fails: it catches nothing
SaveRaises(io) == io # "ok"

\* _save_live raises: a file system call fails, or the division of line 187
save_live_raises(total, budget, io) ==
    SaveRaises(io) \/ percent_used(total, budget).raised

NoFile == [state |-> "absent", data |-> <<>>]

NoResult == [op |-> "none", raised |-> FALSE, record |-> <<>>, value |-> <<>>]

NoQuery == [model |-> NONE, width |-> 0, height |-> 0, is_batch |-> FALSE]

NoPrice == [called |-> FALSE, cost |-> 0]

Threads == 1 .. NThreads

NoFrame == [record |-> <<>>, cost |-> 0, tmp |-> 0, data |-> <<>>]

\* FalCostTracker.__init__, lines 67-74: an empty ledger, total 0, and the
\* live file the caller configured (a path, or None to switch it off)
NewTracker(budgets) ==
    /\ calls = <<>>
    /\ total_cost = 0
    /\ live_file \in {NONE, LIVE_COST_FILE}
    /\ budget_usd \in budgets
    /\ live_data = NoFile

\* a tracker built with the default budget
InitTracker == NewTracker({DEFAULT_BUDGET_USD})

\* no module-level tracker exists: _global_tracker = None, line 291
NoGlobal ==
    /\ global_tracker = 0
    /\ objects = <<>>

\* nothing was exported, and the panel generator of workflow-0.1.0 logged no call
NoExport ==
    /\ export_file = NoFile
    /\ api_calls = <<>>

InitIdle ==
    /\ pc = [t \in Threads |-> "idle"]
    /\ frame = [t \in Threads |-> NoFrame]

\* Track with the snapshot written before the ledger is updated: a failing
\* _save_live leaves the ledger without the call
TrackSaveFirst(model, panel_id, generation_time_ms, width, height, phase, status, io) ==
    LET cost   == track_cost(model, width, height, status)
        record == APICallRecord(model, panel_id, generation_time_ms, width, height, phase,
                                status, NONE, cost)
        saving == live_file # NONE
        failed == saving /\ SaveRaises(io)
        ledger == IF failed THEN calls ELSE AppendRecord(calls, record)
        total  == IF failed THEN total_cost ELSE AddCost(total_cost, cost)
    IN  /\ Len(calls) < MaxCalls
        /\ calls' = ledger
        /\ total_cost' = total
        /\ live_data' = IF saving
                        THEN FileAfterSave(live_data,
                                 LiveData(AppendRecord(calls, record),
                                          AddCost(total_cost, cost), budget_usd,
                                          record), io)
                        ELSE live_data
        /\ result' = [op |-> "track", raised |-> failed, record |-> <<record>>,
                      value |-> <<>>]
        /\ UNCHANGED <<export_file, api_calls, budget_usd, global_tracker, objects, live_file, query, price, pc, frame>>

\* track(model, panel_id, ..., width, height, status, error_message), lines
\* 133-159, called by one caller at a time; io is what the file system does
\* to _save_live.  The ledger is updated first; an exception of _save_live
\* propagates to the caller, who then receives no record.
TrackCall(model, panel_id, generation_time_ms, width, height, phase, status, error_message, io) ==
    LET cost   == track_cost(model, width, height, status)
        record == APICallRecord(model, panel_id, generation_time_ms, width, height, phase,
                                status, error_message, cost)
        ledger == AppendRecord(calls, record)
        total  == AddCost(total_cost, cost)
        saving == live_file # NONE
    IN  /\ calls' = ledger
        /\ total_cost' = total
        /\ live_data' = IF saving
                        THEN FileAfterSave(live_data,
                                 LiveData(ledger, total, budget_usd, record), io)
                        ELSE live_data
        /\ result' = [op     |-> "track",
                      raised |-> saving /\ save_live_raises(total, budget_usd, io),
                      record |-> <<record>>,
                      value  |-> <<>>]
        /\ UNCHANGED <<export_file, api_calls, budget_usd, global_tracker, objects, live_file, query, price, pc, frame>>

\* Track that turns the call away once the budget is used up
TrackWithinBudget(model, panel_id, generation_time_ms, width, height, phase, status, io) ==
    /\ total_cost < budget_usd
    /\ Len(calls) < MaxCalls
    /\ TrackCall(model, panel_id, generation_time_ms, width, height, phase, status,
                 NONE, io)

\* track called without an error_message (the default, None), in a run of at
\* most MaxCalls calls
Track(model, panel_id, generation_time_ms, width, height, phase, status, io) ==
    /\ Len(calls) < MaxCalls
    /\ TrackCall(model, panel_id, generation_time_ms, width, height, phase, status,
                 NONE, io)

\* ------------------------------------------------- sequential specification

Init ==
    /\ InitTracker
    /\ InitIdle
    /\ NoGlobal
    /\ NoExport
    /\ result = NoResult
    /\ query = NoQuery
    /\ price = NoPrice

Next ==
    \E model \in Models, panel_id \in PanelIds, generation_time_ms \in GenTimes,
       dims \in TrackDims, status \in Statuses, io \in IoOutcomes :
        Track(model, panel_id, generation_time_ms, dims[1], dims[2], NONE, status, io)

Spec == Init /\ [][Next]_vars

\* ---------------------------------------------------- pricing specification

\* A tracker on which one (model, width, height) is priced: by calculate_cost
\* called directly, and by track calls that pass the same arguments.
\* query.is_batch says whether the caller's generation call belongs to a
\* batch; neither calculate_cost (line 80) nor track (lines 102-114) has a
\* parameter that receives it.
InitPricing ==
    /\ InitTracker
    /\ InitIdle
    /\ NoGlobal
    /\ NoExport
    /\ result = NoResult
    /\ query \in [model : Models, width : Widths, height : Heights, is_batch : BOOLEAN]
    /\ price = NoPrice

\* CalculateCost with the tracker's running total added to the price
CalculateCostReadingTotal ==
    /\ price' = [called |-> TRUE,
                 cost   |-> calculate_cost(query.model, query.width, query.height)
                            + total_cost]
    /\ UNCHANGED <<export_file, api_calls, budget_usd, global_tracker, objects, calls, total_cost, live_file, live_data, result, query, pc, frame>>

\* calculate_cost(query.model, query.width, query.height), lines 80-100: it
\* returns a cost and assigns nothing on the tracker
CalculateCost ==
    /\ price' = [called |-> TRUE,
                 cost   |-> calculate_cost(query.model, query.width, query.height)]
    /\ UNCHANGED <<export_file, api_calls, budget_usd, global_tracker, objects, calls, total_cost, live_file, live_data, result, query, pc, frame>>

NextPricing ==
    \/ CalculateCost
    \/ \E panel_id \in PanelIds, generation_time_ms \in GenTimes,
          status \in Statuses, io \in IoOutcomes :
           Track(query.model, panel_id, generation_time_ms, query.width, query.height,
                 NONE, status, io)

SpecPricing == InitPricing /\ [][NextPricing]_vars

\* --------------------------------------------------- summary specification

\* budgets handed to the constructor: none, 0.04 USD (the price of one flat
\* call), the default
Budgets == {0, 400000, DEFAULT_BUDGET_USD}

\* models tracked in the runs that are summarised
SummaryModels == {FLAT_MODEL, PER_MP_MODEL}

\* summary(), lines 203-248: it reads the tracker and assigns nothing on it
Summary ==
    /\ result' = [op     |-> "summary",
                  raised |-> summary_raises(calls, total_cost, budget_usd),
                  record |-> <<>>,
                  value  |-> <<summary(calls, total_cost, budget_usd)>>]
    /\ UNCHANGED <<export_file, api_calls, calls, total_cost, live_file, budget_usd, live_data, query, price,
                   pc, frame, global_tracker, objects>>

InitSummary ==
    /\ NewTracker(Budgets)
    /\ InitIdle
    /\ NoGlobal
    /\ NoExport
    /\ result = NoResult
    /\ query = NoQuery
    /\ price = NoPrice

NextSummary ==
    \/ \E model \in SummaryModels, panel_id \in PanelIds,
          generation_time_ms \in GenTimes, phase \in Phases,
          status \in Statuses, io \in IoOutcomes :
           Track(model, panel_id, generation_time_ms, 1024, 1440, phase, status, io)
    \/ Summary

SpecSummary == InitSummary /\ [][NextSummary]_vars

\* ---------------------------------------------------- ledger specification

\* number of track calls made on the tracker whose ledger is reported
MaxLedger == 3

\* asdict(c), line 256: the dict of the fields of a record
asdict(record) == [f \in DOMAIN record |-> record[f]]

\* the object export serialises, with the calls whatever include_calls says
export_data_always_calls(ledger, total, budget, include_calls) ==
    [summary |-> summary(ledger, total, budget),
     calls   |-> [i \in 1 .. Len(ledger) |-> asdict(ledger[i])]]

\* the object export serialises, lines 254-256
export_data(ledger, total, budget, include_calls) ==
    IF include_calls
    THEN [summary |-> summary(ledger, total, budget),
          calls   |-> [i \in 1 .. Len(ledger) |-> asdict(ledger[i])]]
    ELSE [summary |-> summary(ledger, total, budget)]

\* export(filepath, include_calls), lines 250-259; io is what the file system
\* does to os.makedirs, open and json.dump.  It assigns nothing on the tracker.
Export(include_calls, io) ==
    /\ export_file' = FileAfterSave(export_file,
                          export_data(calls, total_cost, budget_usd, include_calls), io)
    /\ result' = [op     |-> "export",
                  raised |-> SaveRaises(io) \/ summary_raises(calls, total_cost, budget_usd),
                  record |-> <<>>,
                  value  |-> <<include_calls>>]
    /\ UNCHANGED <<calls, total_cost, live_file, budget_usd, live_data, query, price,
                   pc, frame, global_tracker, objects, api_calls>>

\* print_summary(), lines 261-287: it formats summary() on the console and
\* assigns nothing on the tracker
PrintSummary ==
    /\ result' = [op     |-> "print_summary",
                  raised |-> summary_raises(calls, total_cost, budget_usd),
                  record |-> <<>>,
                  value  |-> <<>>]
    /\ UNCHANGED <<calls, total_cost, live_file, budget_usd, live_data, query, price,
                   pc, frame, global_tracker, objects, export_file, api_calls>>

\* the (model, phase, status, error_message) arguments of the track calls
\* whose ledger is reported, all for a 1024x1440 image: paid calls in two
\* phases, a failed call with its message, a retried call without a phase, a
\* call with a status outside the three known ones, and a successful call
\* that passes a message
LedgerCalls ==
    {[model |-> FLAT_MODEL, phase |-> "character_generation", status |-> "success",
      error_message |-> NONE],
     [model |-> PER_MP_MODEL, phase |-> "panel_generation", status |-> "success",
      error_message |-> NONE],
     [model |-> PER_MP_MODEL, phase |-> "panel_generation", status |-> "failed",
      error_message |-> "timeout"],
     [model |-> FLAT_MODEL, phase |-> NONE, status |-> "retried",
      error_message |-> NONE],
     [model |-> PER_MP_MODEL, phase |-> "panel_generation", status |-> "cancelled",
      error_message |-> NONE],
     [model |-> FLAT_MODEL, phase |-> "character_generation", status |-> "success",
      error_message |-> "slow response"]}

\* track called with the arguments of call, in a run of at most MaxLedger calls
TrackLedger(call, io) ==
    /\ Len(calls) < MaxLedger
    /\ TrackCall(call.model, "s1_p01", 4200, 1024, 1440, call.phase, call.status,
                 call.error_message, io)

InitLedger ==
    /\ InitTracker
    /\ InitIdle
    /\ NoGlobal
    /\ NoExport
    /\ result = NoResult
    /\ query = NoQuery
    /\ price = NoPrice

NextLedger ==
    \/ \E call \in LedgerCalls, io \in {"ok"} : TrackLedger(call, io)
    \/ Summary
    \/ \E include_calls \in BOOLEAN, io \in {"ok", "write_error"} :
           Export(include_calls, io)
    \/ PrintSummary

SpecLedger == InitLedger /\ [][NextLedger]_vars

\* ---------------------------------------------------- concurrent callers

\* Each caller of Threads runs track once on the shared tracker.  The code
\* takes no lock, so the callers interleave between the steps below:
\* list.append is one step of the interpreter, "self.total_cost += cost" is a
\* read followed by a write, and _save_live builds its data from the shared
\* state and then writes the file.

\* the <<model, status>> arguments the concurrent callers pass, all for a
\* 1024x1440 image
ConcCalls ==
    {<<FLAT_MODEL, "success">>, <<PER_MP_MODEL, "failed">>}

\* the panel_id caller t passes: every caller tracks its own panel
PanelOf(t) == "s1_p0" \o ToString(t)

\* lines 133-150: the cost and the record are computed from the arguments
TrackEnter(t, model, width, height, status) ==
    LET cost == track_cost(model, width, height, status)
    IN  /\ pc[t] = "idle"
        /\ frame' = [frame EXCEPT ![t] =
               [record |-> <<APICallRecord(model, PanelOf(t), 4200, width, height, NONE,
                                            status, NONE, cost)>>,
                cost   |-> cost,
                tmp    |-> 0,
                data   |-> <<>>]]
        /\ pc' = [pc EXCEPT ![t] = "append"]
        /\ UNCHANGED <<export_file, api_calls, budget_usd, global_tracker, objects, calls, total_cost, live_file, live_data, result, query, price>>

\* line 152: self.calls.append(record)
TrackAppend(t) ==
    /\ pc[t] = "append"
    /\ calls' = AppendRecord(calls, frame[t].record[1])
    /\ pc' = [pc EXCEPT ![t] = "load"]
    /\ UNCHANGED <<export_file, api_calls, budget_usd, global_tracker, objects, total_cost, live_file, live_data, result, query, price, frame>>

\* line 153, first half: self.total_cost is read
TrackLoad(t) ==
    /\ pc[t] = "load"
    /\ frame' = [frame EXCEPT ![t].tmp = total_cost]
    /\ pc' = [pc EXCEPT ![t] = "store"]
    /\ UNCHANGED <<export_file, api_calls, budget_usd, global_tracker, objects, calls, total_cost, live_file, live_data, result, query, price>>

\* line 153, second half: the sum is stored into self.total_cost
TrackStore(t) ==
    /\ pc[t] = "store"
    /\ total_cost' = AddCost(frame[t].tmp, frame[t].cost)
    /\ pc' = [pc EXCEPT ![t] = "save"]
    /\ UNCHANGED <<export_file, api_calls, budget_usd, global_tracker, objects, calls, live_file, live_data, result, query, price, frame>>

\* lines 156-157 without a live file: track returns the record
TrackReturn(t) ==
    /\ pc[t] = "save"
    /\ live_file = NONE
    /\ pc' = [pc EXCEPT ![t] = "done"]
    /\ UNCHANGED <<export_file, api_calls, budget_usd, global_tracker, objects, calls, total_cost, live_file, live_data, result, query, price, frame>>

\* lines 156-198: _save_live creates the directory and builds its data from
\* the tracker as it is now; a failing os.makedirs raises out of track
TrackBuildLive(t, io) ==
    /\ pc[t] = "save"
    /\ live_file # NONE
    /\ io \in {"ok", "makedirs_error"}
    /\ IF SaveRaises(io)
       THEN /\ pc' = [pc EXCEPT ![t] = "raised"]
            /\ UNCHANGED frame
       ELSE /\ pc' = [pc EXCEPT ![t] = "open"]
            /\ frame' = [frame EXCEPT ![t].tmp = 0,
                                      ![t].data = <<LiveData(calls, total_cost, budget_usd,
                                                            frame[t].record[1])>>]
    /\ UNCHANGED <<export_file, api_calls, budget_usd, global_tracker, objects, calls, total_cost, live_file, live_data, result, query, price>>

\* line 200: open(self.live_file, "w") empties the live file in place, or
\* fails and raises out of track with the file as it was
TrackOpenLive(t, io) ==
    /\ pc[t] = "open"
    /\ io \in {"ok", "open_error"}
    /\ live_data' = IF SaveRaises(io) THEN live_data ELSE Truncated
    /\ pc' = [pc EXCEPT ![t] = IF SaveRaises(io) THEN "raised" ELSE "write"]
    /\ UNCHANGED <<export_file, api_calls, budget_usd, global_tracker, objects, calls, total_cost, live_file, result, query, price, frame>>

\* line 201: json.dump writes the data into the opened file and the file is
\* closed; a failing write raises out of track and leaves the file cut short,
\* otherwise track returns the record
TrackWriteLive(t, io) ==
    /\ pc[t] = "write"
    /\ io \in {"ok", "write_error"}
    /\ live_data' = FileAfterSave(live_data, frame[t].data[1], io)
    /\ pc' = [pc EXCEPT ![t] = IF SaveRaises(io) THEN "raised" ELSE "done"]
    /\ UNCHANGED <<export_file, api_calls, budget_usd, global_tracker, objects, calls, total_cost, live_file, result, query, price, frame>>

InitConc ==
    /\ InitTracker
    /\ InitIdle
    /\ NoGlobal
    /\ NoExport
    /\ result = NoResult
    /\ query = NoQuery
    /\ price = NoPrice

NextConc ==
    \E t \in Threads :
        \/ \E call \in ConcCalls : TrackEnter(t, call[1], 1024, 1440, call[2])
        \/ TrackAppend(t)
        \/ TrackLoad(t)
        \/ TrackStore(t)
        \/ TrackReturn(t)
        \/ \E io \in IoOutcomes : TrackBuildLive(t, io)
        \/ \E io \in IoOutcomes : TrackOpenLive(t, io)
        \/ \E io \in IoOutcomes : TrackWriteLive(t, io)

SpecConc == InitConc /\ [][NextConc]_vars

\* ------------------------------------------------ claims on the ledger

RECURSIVE SumCost(_)
\* the sum of cost_usd over the records of a ledger
SumCost(ledger) ==
    IF ledger = <<>> THEN 0
    ELSE ledger[1].cost_usd + SumCost(Tail(ledger))

C2_UnsuccessfulCallsAreFree ==
    [][(/\ Len(calls') = Len(calls) + 1
        /\ calls'[Len(calls')].status # "success")
       => (/\ calls'[Len(calls')].cost_usd = 0
           /\ total_cost' = total_cost)]_vars

\* C2 witness: a retried call on the tiered model recorded after a paid call.
C2_Witness ==
    /\ Len(calls) = 2
    /\ calls[1].cost_usd > 0
    /\ calls[2].status = "retried"
    /\ calls[2].model = TIERED_MODEL
    /\ calls[2].cost_usd = 0
    /\ total_cost = calls[1].cost_usd

\* C5: track never fails; when writing the live snapshot fails, track still
\* returns the record to its caller.
C5_TrackAlwaysReturns == result.op = "track" => ~result.raised

\* C6: when the snapshot write of a track call fails, the ledger already
\* holds the new record as its last one and total_cost already includes its
\* cost; neither is rolled back.
C6_LedgerUpdatedBeforeSnapshot ==
    [][(result'.op = "track" /\ result'.raised)
       => (/\ calls' = Append(calls, result'.record[1])
           /\ total_cost' = total_cost + result'.record[1].cost_usd)]_vars

\* C6 witness: a paid call whose snapshot write failed half way.
C6_Witness ==
    /\ result.op = "track"
    /\ result.raised
    /\ result.record[1].cost_usd > 0
    /\ live_data.state = "truncated"
    /\ calls[Len(calls)] = result.record[1]

\* ------------------------------------------------ claims on the pricing

\* the megapixel count rounded up to the next whole megapixel, at least 1
CeilMp(width, height) == Max(1, (width * height + 999999) \div 1000000)

PerMpModels == {m \in DOMAIN PRICING : "per_mp" \in DOMAIN PRICING[m]}

TieredModels == {m \in DOMAIN PRICING : "first_mp" \in DOMAIN PRICING[m]}

\* the successful records of the ledger
Successes == {i \in 1 .. Len(calls) : calls[i].status = "success"}

\* C7: for a model that is not a key of the pricing table calculate_cost
\* returns the fallback 0.05 USD for every width and height, and a successful
\* track call for such a model records the cost 0.05 USD.
C7_UnknownModelCostsFallback ==
    /\ (price.called /\ query.model \notin DOMAIN PRICING) => price.cost = 500000
    /\ \A i \in Successes :
           calls[i].model \notin DOMAIN PRICING => calls[i].cost_usd = 500000

\* C7 witness: an unlisted model priced for a negative width, directly and
\* by a successful track call.
C7_Witness ==
    /\ price.called
    /\ query.model = UNKNOWN_MODEL
    /\ query.width < 0
    /\ \E i \in Successes : calls[i].model = UNKNOWN_MODEL

\* C8: for every per-megapixel model and every positive width and height,
\* calculate_cost returns ceilMp * rate with ceilMp = max(1, ceil(w*h/10^6)).
C8_PerMegapixelRoundsUp ==
    (/\ price.called
     /\ query.model \in PerMpModels
     /\ query.width > 0
     /\ query.height > 0)
    => price.cost = CeilMp(query.width, query.height) * PRICING[query.model].per_mp

\* C9: for the tiered model and every positive width and height,
\* calculate_cost returns first_mp + max(0, ceilMp - 1) * additional_mp.
C9_TieredRoundsUp ==
    (/\ price.called
     /\ query.model \in TieredModels
     /\ query.width > 0
     /\ query.height > 0)
    => price.cost = PRICING[query.model].first_mp
                    + Max(0, CeilMp(query.width, query.height) - 1)
                      * PRICING[query.model].additional_mp

\* what one billed megapixel costs on a megapixel-priced model
MinimumCost(model) ==
    IF model \in TieredModels THEN PRICING[model].first_mp ELSE PRICING[model].per_mp

\* C10: whenever width <= 0 or height <= 0 the call is priced as 0
\* megapixels, at the minimum of one billed megapixel of its pricing model,
\* and track bills no more than that minimum.
C10_NonPositiveDimsBillMinimum ==
    /\ (/\ price.called
        /\ query.model \in PerMpModels \cup TieredModels
        /\ (query.width <= 0 \/ query.height <= 0))
       => price.cost = MinimumCost(query.model)
    /\ \A i \in Successes :
           (/\ calls[i].model \in PerMpModels \cup TieredModels
            /\ (calls[i].image_dimensions[1] <= 0 \/ calls[i].image_dimensions[2] <= 0))
           => calls[i].cost_usd <= MinimumCost(calls[i].model)

\* ------------------------------------------ claims on concurrent callers

\* caller t has run line 152
Appended(t) == pc[t] \notin {"idle", "append"}

\* track has returned to caller t or raised out of it
Returned(t) == pc[t] \in {"done", "raised"}

\* the positions in the ledger of the records of caller t
RecordsOf(t) == {i \in 1 .. Len(calls) : calls[i].panel_id = PanelOf(t)}

RECURSIVE CostsOf(_)
\* the sum of the costs computed by a set of callers
CostsOf(S) ==
    IF S = {} THEN 0
    ELSE LET t == CHOOSE x \in S : TRUE
         IN  frame[t].cost + CostsOf(S \ {t})

\* C3: when N callers invoke track concurrently, under every interleaving the
\* ledger holds exactly one record per call that has appended, none lost and
\* none duplicated; once all N calls have ended it holds exactly N records.
C3_OneRecordPerConcurrentCall ==
    /\ \A t \in Threads :
           Cardinality(RecordsOf(t)) = IF Appended(t) THEN 1 ELSE 0
    /\ Len(calls) = Cardinality({t \in Threads : Appended(t)})
    /\ (\A t \in Threads : Returned(t)) => Len(calls) = NThreads

\* C3 witness: all calls have ended, the second caller's record was appended
\* first, and the two read-add-write sequences on total_cost overlapped.
C3_Witness ==
    /\ \A t \in Threads : Returned(t)
    /\ calls[1].panel_id = PanelOf(2)
    /\ total_cost # SumCost(calls)

\* C4: the append and the increment of total_cost are one atomic unit: in
\* every state an observer can see, total_cost includes the cost of every
\* call whose record is in the ledger, and once all calls have returned
\* total_cost is the sum of cost_usd of all records: no increment is lost.
C4_AppendAndAddAreAtomic ==
    /\ total_cost = CostsOf({t \in Threads : Appended(t)})
    /\ (\A t \in Threads : Returned(t)) => total_cost = SumCost(calls)

\* ------------------------------------- claims on flat prices and batches

FlatModels == {m \in DOMAIN PRICING : "flat" \in DOMAIN PRICING[m]}

\* C11: for every flat-priced model calculate_cost returns the model's flat
\* amount for every width and height, and so does a successful track call.
C11_FlatPriceIgnoresDimensions ==
    /\ (price.called /\ query.model \in FlatModels)
       => price.cost = PRICING[query.model].flat
    /\ \A i \in Successes :
           calls[i].model \in FlatModels
           => calls[i].cost_usd = PRICING[calls[i].model].flat

\* C11 witness: the flat model priced for a 2000x1440 image (3 megapixels),
\* directly and by a successful track call.
C11_Witness ==
    /\ price.called
    /\ query.model = FLAT_MODEL
    /\ query.width = 2000
    /\ query.height = 1440
    /\ \E i \in Successes : calls[i].model = FLAT_MODEL

\* C12: when the caller flags a call as batch, the cost of a flat or
\* per-megapixel model is multiplied by the batch discount 0.5, and the cost
\* of the tiered model is left undiscounted.
C12_BatchDiscount ==
    (price.called /\ query.is_batch /\ query.width > 0 /\ query.height > 0)
    => LET n == mp_rounded(calculate_megapixels(query.width, query.height))
       IN  /\ query.model \in FlatModels
              => 2 * price.cost = PRICING[query.model].flat
           /\ query.model \in PerMpModels
              => 2 * price.cost = n * PRICING[query.model].per_mp
           /\ query.model \in TieredModels
              => price.cost = PRICING[query.model].first_mp
                              + (n - 1) * PRICING[query.model].additional_mp

\* ------------------------------------------------- module-level tracker

\* most FalCostTracker instances built for _global_tracker in one run
MaxTrackers == 2

\* the session_id arguments of get_tracker and reset_tracker
SessionIds == {NONE, "", "poc-run"}

\* what datetime.utcnow().strftime('%Y%m%d-%H%M%S') returns at construction
Clock == {"20250101-120000"}

\* line 69: session_id or f"session-{...}"; None and "" are both falsy
session_name(session_id, now) ==
    IF session_id \in {NONE, ""} THEN "session-" \o now ELSE session_id

\* FalCostTracker(session_id), lines 67-74, with the default budget and the
\* default live file
FalCostTracker(session_id, now) ==
    [session_id |-> session_name(session_id, now),
     budget_usd |-> DEFAULT_BUDGET_USD,
     live_file  |-> LIVE_COST_FILE,
     calls      |-> <<>>,
     total_cost |-> 0,
     start_time |-> now]

\* the number of records held by all the trackers of objs together
TotalRecords(objs) ==
    LET RECURSIVE Upto(_)
        Upto(n) == IF n = 0 THEN 0 ELSE Len(objs[n].calls) + Upto(n - 1)
    IN  Upto(Len(objs))

\* get_tracker that constructs a tracker on every call
get_tracker_always_new(global, objs, session_id, now) ==
    [global  |-> Len(objs) + 1,
     objects |-> Append(objs, FalCostTracker(session_id, now))]

\* get_tracker, lines 294-299: the global and the instances after the call;
\* the returned reference is the global
get_tracker(global, objs, session_id, now) ==
    IF global = 0
    THEN [global  |-> Len(objs) + 1,
          objects |-> Append(objs, FalCostTracker(session_id, now))]
    ELSE [global |-> global, objects |-> objs]

\* reset_tracker, lines 302-306
reset_tracker(global, objs, session_id, now) ==
    [global  |-> Len(objs) + 1,
     objects |-> Append(objs, FalCostTracker(session_id, now))]

\* the reference a call of get_tracker or reset_tracker returned
Returned_ref(ref) ==
    [op |-> "none", raised |-> FALSE, record |-> <<>>, value |-> <<ref>>]

GetTracker(session_id, now) ==
    LET after == get_tracker(global_tracker, objects, session_id, now)
    IN  /\ Len(after.objects) <= MaxTrackers
        /\ global_tracker' = after.global
        /\ objects' = after.objects
        /\ result' = [Returned_ref(after.global) EXCEPT !.op = "get_tracker"]
        /\ UNCHANGED <<export_file, api_calls, calls, total_cost, live_file, budget_usd, live_data, query, price,
                       pc, frame>>

ResetTracker(session_id, now) ==
    LET after == reset_tracker(global_tracker, objects, session_id, now)
    IN  /\ Len(after.objects) <= MaxTrackers
        /\ global_tracker' = after.global
        /\ objects' = after.objects
        /\ result' = [Returned_ref(after.global) EXCEPT !.op = "reset_tracker"]
        /\ UNCHANGED <<export_file, api_calls, calls, total_cost, live_file, budget_usd, live_data, query, price,
                       pc, frame>>

\* track, lines 102-159, called on the tracker a caller holds by reference
TrackOnObject(ref, model, panel_id, generation_time_ms, width, height, phase, status, io) ==
    LET self   == objects[ref]
        cost   == track_cost(model, width, height, status)
        record == APICallRecord(model, panel_id, generation_time_ms, width, height,
                                phase, status, NONE, cost)
        ledger == AppendRecord(self.calls, record)
        total  == AddCost(self.total_cost, cost)
    IN  /\ TotalRecords(objects) < MaxCalls
        /\ objects' = [objects EXCEPT ![ref].calls = ledger, ![ref].total_cost = total]
        /\ live_data' = FileAfterSave(live_data,
                                      LiveData(ledger, total, self.budget_usd, record), io)
        /\ result' = [op     |-> "track",
                      raised |-> save_live_raises(total, self.budget_usd, io),
                      record |-> <<record>>,
                      value  |-> <<ref>>]
        /\ UNCHANGED <<export_file, api_calls, calls, total_cost, live_file, budget_usd, query, price,
                       global_tracker>>

\* track in sequential use of the module-level tracker: no caller is inside
\* get_tracker
TrackOn(ref, model, panel_id, generation_time_ms, width, height, phase, status, io) ==
    /\ TrackOnObject(ref, model, panel_id, generation_time_ms, width, height, phase,
                     status, io)
    /\ UNCHANGED <<pc, frame>>

\* no tracker but the module-level one is in use
InitGlobal ==
    /\ calls = <<>>
    /\ total_cost = 0
    /\ live_file = NONE
    /\ budget_usd = DEFAULT_BUDGET_USD
    /\ live_data = NoFile
    /\ InitIdle
    /\ NoGlobal
    /\ NoExport
    /\ result = NoResult
    /\ query = NoQuery
    /\ price = NoPrice

NextGlobal ==
    \/ \E session_id \in SessionIds, now \in Clock : GetTracker(session_id, now)
    \/ \E session_id \in SessionIds, now \in Clock : ResetTracker(session_id, now)
    \/ \E ref \in 1 .. Len(objects), call \in ConcCalls, io \in IoOutcomes :
           TrackOn(ref, call[1], "s1_p01", 4200, 1024, 1440, NONE, call[2], io)

SpecGlobal == InitGlobal /\ [][NextGlobal]_vars

\* Concurrent callers of get_tracker.  The function takes no lock, so the
\* callers interleave between the test of line 297, the construction and the
\* assignment of line 298, and the read of the global that line 299 returns.

\* line 297: if _global_tracker is None
GetCheck(t) ==
    /\ pc[t] = "idle"
    /\ pc' = [pc EXCEPT ![t] = IF global_tracker = 0 THEN "construct" ELSE "return"]
    /\ UNCHANGED <<export_file, api_calls, budget_usd, global_tracker, objects, calls, total_cost, live_file,
                   live_data, result, query, price, frame>>

\* line 298, right-hand side: FalCostTracker(session_id)
GetConstruct(t, session_id, now) ==
    /\ pc[t] = "construct"
    /\ objects' = Append(objects, FalCostTracker(session_id, now))
    /\ frame' = [frame EXCEPT ![t].tmp = Len(objects) + 1]
    /\ pc' = [pc EXCEPT ![t] = "assign"]
    /\ UNCHANGED <<export_file, api_calls, budget_usd, global_tracker, calls, total_cost, live_file,
                   live_data, result, query, price>>

\* line 298, assignment: _global_tracker = <the new instance>
GetAssign(t) ==
    /\ pc[t] = "assign"
    /\ global_tracker' = frame[t].tmp
    /\ pc' = [pc EXCEPT ![t] = "return"]
    /\ UNCHANGED <<export_file, api_calls, budget_usd, objects, calls, total_cost, live_file,
                   live_data, result, query, price, frame>>

\* line 299: return _global_tracker, the global as it is now
GetReturn(t) ==
    /\ pc[t] = "return"
    /\ frame' = [frame EXCEPT ![t].tmp = global_tracker]
    /\ pc' = [pc EXCEPT ![t] = "holding"]
    /\ UNCHANGED <<export_file, api_calls, budget_usd, global_tracker, objects, calls, total_cost, live_file,
                   live_data, result, query, price>>

\* a caller that got its tracker records one call on it
TrackHeld(t, model, status, io) ==
    /\ pc[t] = "holding"
    /\ pc' = [pc EXCEPT ![t] = "tracked"]
    /\ UNCHANGED frame
    /\ TrackOnObject(frame[t].tmp, model, PanelOf(t), 4200, 1024, 1440, NONE, status, io)

NextGlobalConc ==
    \E t \in Threads :
        \/ GetCheck(t)
        \/ \E session_id \in SessionIds, now \in Clock : GetConstruct(t, session_id, now)
        \/ GetAssign(t)
        \/ GetReturn(t)
        \/ \E call \in ConcCalls, io \in IoOutcomes : TrackHeld(t, call[1], call[2], io)

SpecGlobalConc == InitGlobal /\ [][NextGlobalConc]_vars

\* ---------------------------------- workflow-0.1.0: CostTracker of the panels

\* The panel generator of workflow-0.1.0 (scripts/panel_generator.py) keeps
\* its own CostTracker: log_call appends one entry per API call and
\* get_summary estimates the cost from the number of successful entries.

\* number of generate_panel invocations in one run
MaxPanels == 3

\* cost_per_image = 0.15, in 10^-7 USD
COST_PER_IMAGE == 1500000

\* the model the generator calls
PANEL_MODEL == "gemini-3-pro-image-preview"

\* the ids of the panel specs handed to generate_panel
PanelSpecIds == {"s1_p01", "s1_p02"}

\* how the body of generate_panel ends: an image part is saved, the response
\* holds no image, the API call raises, or saving the image raises
PanelOutcomes == {"image", "no_image", "api_error", "save_error"}

\* log_call(model, panel_id, success), lines 57-63 (the timestamp, which no
\* computation reads, is left out)
log_call(log, model, panel_id, success) ==
    Append(log, [model |-> model, panel_id |-> panel_id, success |-> success])

\* the number of entries of the log with a true success
successful_calls(log) == Cardinality({i \in 1 .. Len(log) : log[i].success})

\* get_summary with every logged call taken as paid
get_summary_all_paid(log) ==
    [total_calls        |-> Len(log),
     successful_calls   |-> successful_calls(log),
     failed_calls       |-> Len(log) - successful_calls(log),
     estimated_cost_usd |-> Len(log) * COST_PER_IMAGE,
     calls              |-> log]

\* get_summary(), lines 65-76
get_summary(log) ==
    [total_calls        |-> Len(log),
     successful_calls   |-> successful_calls(log),
     failed_calls       |-> Len(log) - successful_calls(log),
     estimated_cost_usd |-> successful_calls(log) * COST_PER_IMAGE,
     calls              |-> log]

\* generate_panel(panel_spec, output_path), lines 308-417: the path that
\* saves an image logs a successful call (line 390); a response without an
\* image logs a failed call (line 404); every exception raised inside the
\* try block, by the API call or by saving, is caught and logs a failed call
\* (line 412).  The function returns a dict with the same success flag.
GeneratePanel(panel_id, outcome) ==
    LET success == outcome = "image"
    IN  /\ Len(api_calls) < MaxPanels
        /\ api_calls' = log_call(api_calls, PANEL_MODEL, panel_id, success)
        /\ result' = [op     |-> "generate_panel",
                      raised |-> FALSE,
                      record |-> <<>>,
                      value  |-> <<[success  |-> success,
                                    panel_id |-> panel_id,
                                    outcome  |-> outcome]>>]
        /\ UNCHANGED <<calls, total_cost, live_file, budget_usd, live_data, query, price,
                       pc, frame, global_tracker, objects, export_file>>

\* get_summary(), called on the generator's tracker: it assigns nothing
GetSummary ==
    /\ result' = [op     |-> "get_summary",
                  raised |-> FALSE,
                  record |-> <<>>,
                  value  |-> <<get_summary(api_calls)>>]
    /\ UNCHANGED <<calls, total_cost, live_file, budget_usd, live_data, query, price,
                   pc, frame, global_tracker, objects, export_file, api_calls>>

\* PanelGenerator.__init__ builds an empty CostTracker, line 163; no
\* FalCostTracker is in use
InitPanel == InitGlobal

NextPanel ==
    \/ \E panel_id \in PanelSpecIds, outcome \in PanelOutcomes :
           GeneratePanel(panel_id, outcome)
    \/ GetSummary

SpecPanel == InitPanel /\ [][NextPanel]_vars

\* ------------------------------- claims on the snapshot and the summary

\* the digest _save_live keeps of a record
Digest(record) ==
    [model    |-> record.model,
     cost_usd |-> record.cost_usd,
     panel_id |-> record.panel_id,
     status   |-> record.status]

RECURSIVE GroupCosts(_)
\* the sum of cost_usd over the groups of a rollup
GroupCosts(groups) ==
    IF DOMAIN groups = {} THEN 0
    ELSE LET k == CHOOSE x \in DOMAIN groups : TRUE
         IN  groups[k].cost_usd
             + GroupCosts([j \in DOMAIN groups \ {k} |-> groups[j]])

\* the number of records of the ledger that satisfy a test on the phase
WithPhase(phase) == Cardinality({i \in 1 .. Len(calls) : calls[i].phase = phase})

\* C13: with a live file configured and calls issued one at a time, after a
\* track call has returned the live snapshot reflects that call: total_calls
\* is the ledger length, the total cost is total_cost, and last_call is the
\* record just appended.
C13_SnapshotReflectsEveryCall ==
    (result.op = "track" /\ ~result.raised /\ live_file # NONE)
    => /\ live_data.state = "complete"
       /\ live_data.data[1].total_calls = Len(calls)
       /\ live_data.data[1].total_cost_usd = total_cost
       /\ live_data.data[1].last_call = Digest(calls[Len(calls)])
       /\ calls[Len(calls)] = result.record[1]

\* C13 witness: the second call, unlike the first in model and status, has
\* returned and the snapshot shows it.
C13_Witness ==
    /\ result.op = "track"
    /\ ~result.raised
    /\ live_file # NONE
    /\ Len(calls) = 2
    /\ calls[1].model # calls[2].model
    /\ calls[1].status # calls[2].status
    /\ total_cost > 0
    /\ live_data.data[1].total_calls = 2

\* C17: summary() reports total_calls equal to the number of records and a
\* total cost equal to total_cost, and its per-model cost sums and its
\* per-phase cost sums each add up to that total.
C17_SummaryTotalsAgree ==
    result.op = "summary"
    => LET s == result.value[1]
       IN  /\ s.total_calls = Len(calls)
           /\ s.total_cost_usd = total_cost
           /\ GroupCosts(s.by_model) = s.total_cost_usd
           /\ GroupCosts(s.by_phase) = s.total_cost_usd

\* C17 witness: a summary of two paid calls on different models in different
\* phases.
C17_Witness ==
    /\ result.op = "summary"
    /\ Len(calls) = 2
    /\ Cardinality(DOMAIN result.value[1].by_model) = 2
    /\ Cardinality(DOMAIN result.value[1].by_phase) = 2
    /\ calls[1].cost_usd > 0
    /\ calls[2].cost_usd > 0

\* C18: for every ledger, the empty one included, by_status of summary() has
\* the three keys success, failed and retried, with 0 for a status that no
\* record has.
C18_ByStatusIsComplete ==
    result.op = "summary"
    => LET by_status == result.value[1].by_status
       IN  \A k \in {"success", "failed", "retried"} :
               /\ k \in DOMAIN by_status
               /\ by_status[k] = Cardinality({i \in 1 .. Len(calls) : calls[i].status = k})

\* C18 witness: a summary of a ledger whose records all failed.
C18_Witness ==
    /\ result.op = "summary"
    /\ Len(calls) = 2
    /\ \A i \in 1 .. 2 : calls[i].status = "failed"
    /\ result.value[1].by_status["success"] = 0
    /\ result.value[1].by_status["retried"] = 0

\* C19: summary() on an empty ledger returns total_calls 0, total cost 0,
\* empty model and phase groups and average_generation_time_ms 0 without a
\* division error; and when budget_usd is 0, percent_used is 0 in summary()
\* and in the live snapshot without a division error, whatever the total.
C19_NoDivisionByZero ==
    /\ (result.op = "summary" /\ calls = <<>>)
       => LET s == result.value[1]
          IN  /\ ~result.raised
              /\ s.total_calls = 0
              /\ s.total_cost_usd = 0
              /\ DOMAIN s.by_model = {}
              /\ DOMAIN s.by_phase = {}
              /\ s.average_generation_time_ms = 0
    /\ (result.op = "summary" /\ budget_usd = 0)
       => (~result.raised /\ result.value[1].percent_used = 0)
    /\ (budget_usd = 0 /\ live_data.state = "complete")
       => live_data.data[1].percent_used = 0
    /\ (budget_usd = 0 /\ live_file = NONE /\ result.op = "track")
       => ~result.raised

\* C19 witness: with a budget of 0 and a positive total, a snapshot was
\* written and summary() then returned.
C19_Witness ==
    /\ result.op = "summary"
    /\ ~result.raised
    /\ budget_usd = 0
    /\ total_cost > 0
    /\ live_data.state = "complete"
    /\ live_data.data[1].total_cost_usd > 0

\* C19 witness on the empty ledger: summary() returned for a tracker without
\* calls and with a budget of 0.
C19_WitnessEmpty ==
    /\ result.op = "summary"
    /\ calls = <<>>
    /\ budget_usd = 0

\* C20: in summary() and in the live snapshot a record whose phase is absent
\* is counted under "unspecified", and a record whose phase is the empty
\* string is not merged into that bucket: it is counted under "".
C20_EmptyPhaseIsNotUnspecified ==
    LET Separate(by_phase) ==
            /\ WithPhase(NONE) > 0
               => /\ "unspecified" \in DOMAIN by_phase
                  /\ by_phase["unspecified"].count = WithPhase(NONE)
            /\ WithPhase("") > 0
               => /\ "" \in DOMAIN by_phase
                  /\ by_phase[""].count = WithPhase("")
    IN  /\ result.op = "summary" => Separate(result.value[1].by_phase)
        /\ (result.op = "track" /\ ~result.raised /\ live_file # NONE)
           => Separate(live_data.data[1].by_phase)

\* C14: a reader polling the live file while track runs never sees an empty,
\* truncated or partly written file: at every instant the file is absent or
\* holds a complete snapshot.
C14_ReaderSeesCompleteSnapshot ==
    live_data.state \in {"absent", "complete"}

\* -------------------------------------- claims on the module-level tracker

\* the callers of get_tracker that have their tracker
Holding == {t \in Threads : pc[t] \in {"holding", "tracked"}}

\* C15: when callers invoke get_tracker concurrently while no global tracker
\* exists, one FalCostTracker is constructed and every caller receives that
\* instance: no two callers hold different trackers, and no tracker that
\* holds records is other than the global one.
C15_OneGlobalTracker ==
    /\ Len(objects) <= 1
    /\ \A t, u \in Holding : frame[t].tmp = frame[u].tmp
    /\ \A ref \in 1 .. Len(objects) :
           objects[ref].calls # <<>> => global_tracker = ref

\* C16: in sequential use get_tracker creates the global tracker when there
\* is none and otherwise returns the existing instance untouched, whatever
\* session_id it is given; reset_tracker installs a new tracker with an empty
\* ledger and a total of 0 and leaves the records of the old trackers where
\* they were.
C16_GetKeepsResetReplaces ==
    [][ /\ (result'.op = "get_tracker" /\ global_tracker # 0)
           => /\ global_tracker' = global_tracker
              /\ objects' = objects
              /\ result'.value[1] = global_tracker
        /\ (result'.op = "get_tracker" /\ global_tracker = 0)
           => /\ Len(objects') = Len(objects) + 1
              /\ global_tracker' = Len(objects')
              /\ result'.value[1] = global_tracker'
              /\ objects'[global_tracker'].calls = <<>>
              /\ objects'[global_tracker'].total_cost = 0
        /\ (result'.op = "reset_tracker")
           => /\ Len(objects') = Len(objects) + 1
              /\ global_tracker' = Len(objects')
              /\ result'.value[1] = global_tracker'
              /\ objects'[global_tracker'].calls = <<>>
              /\ objects'[global_tracker'].total_cost = 0
              /\ \A ref \in 1 .. Len(objects) : objects'[ref] = objects[ref]
      ]_vars

\* C16 witness: the first tracker recorded a paid call, reset_tracker
\* replaced it, and a later get_tracker returned the second, empty tracker.
C16_Witness ==
    /\ result.op = "get_tracker"
    /\ Len(objects) = 2
    /\ global_tracker = 2
    /\ result.value[1] = 2
    /\ objects[1].total_cost > 0
    /\ Len(objects[1].calls) > 0
    /\ objects[2].calls = <<>>

\* ------------------------------------------- claims on the reported ledger

\* the records of the ledger that satisfy a test
RecordsWith(Test(_)) == {i \in 1 .. Len(calls) : Test(calls[i])}

RECURSIVE GroupCounts(_)
\* the sum of the counts over the groups of a rollup
GroupCounts(groups) ==
    IF DOMAIN groups = {} THEN 0
    ELSE LET k == CHOOSE x \in DOMAIN groups : TRUE
         IN  groups[k].count
             + GroupCounts([j \in DOMAIN groups \ {k} |-> groups[j]])

RECURSIVE StatusCounts(_)
\* the sum of the counts of a by_status map
StatusCounts(by_status) ==
    IF DOMAIN by_status = {} THEN 0
    ELSE LET k == CHOOSE x \in DOMAIN by_status : TRUE
         IN  by_status[k]
             + StatusCounts([j \in DOMAIN by_status \ {k} |-> by_status[j]])

RECURSIVE SuccessCost(_)
\* the sum of cost_usd over the successful records among the indexes S
SuccessCost(S) ==
    IF S = {} THEN 0
    ELSE LET i == CHOOSE x \in S : TRUE
         IN  (IF calls[i].status = "success" THEN calls[i].cost_usd ELSE 0)
             + SuccessCost(S \ {i})

\* the ledger of the example: a flat 0.04 success in character_generation,
\* then a 0.01 success and a failed call in panel_generation
ExampleLedger ==
    /\ Len(calls) = 3
    /\ calls[1].phase = "character_generation" /\ calls[1].status = "success"
    /\ calls[1].cost_usd = 400000
    /\ calls[2].phase = "panel_generation" /\ calls[2].status = "success"
    /\ calls[2].cost_usd = 100000
    /\ calls[3].phase = "panel_generation" /\ calls[3].status = "failed"

\* C21: in summary() every recorded call, whatever its status (one outside
\* success, failed, retried too), is counted once in total_calls, once in
\* its model group, once in its phase group and once in its status group, so
\* the counts of each grouping sum to total_calls; calls that did not succeed
\* add nothing to a cost sum.  For the example ledger the summary is
\* total_calls 3, cost 0.05, success 2 / failed 1 / retried 0, and
\* panel_generation with count 2 and cost 0.01.
C21_EveryCallCountedOnce ==
    result.op = "summary"
    => LET s == result.value[1]
       IN  /\ s.total_calls = Len(calls)
           /\ GroupCounts(s.by_model) = s.total_calls
           /\ GroupCounts(s.by_phase) = s.total_calls
           /\ StatusCounts(s.by_status) = s.total_calls
           /\ \A i \in 1 .. Len(calls) :
                  LET SameModel(c)  == c.model = calls[i].model
                      SameStatus(c) == c.status = calls[i].status
                  IN  /\ calls[i].model \in DOMAIN s.by_model
                      /\ s.by_model[calls[i].model].count
                             = Cardinality(RecordsWith(SameModel))
                      /\ s.by_model[calls[i].model].cost_usd
                             = SuccessCost(RecordsWith(SameModel))
                      /\ calls[i].status \in DOMAIN s.by_status
                      /\ s.by_status[calls[i].status]
                             = Cardinality(RecordsWith(SameStatus))
           /\ \A p \in {"character_generation", "panel_generation"} :
                  LET InPhase(c) == c.phase = p
                  IN  RecordsWith(InPhase) # {}
                      => /\ p \in DOMAIN s.by_phase
                         /\ s.by_phase[p].count = Cardinality(RecordsWith(InPhase))
                         /\ s.by_phase[p].cost_usd = SuccessCost(RecordsWith(InPhase))
           /\ s.total_cost_usd = SuccessCost(1 .. Len(calls))
           /\ ExampleLedger
              => /\ s.total_calls = 3
                 /\ s.total_cost_usd = 500000
                 /\ s.by_status["success"] = 2
                 /\ s.by_status["failed"] = 1
                 /\ s.by_status["retried"] = 0
                 /\ s.by_phase["character_generation"] = [count |-> 1, cost_usd |-> 400000]
                 /\ s.by_phase["panel_generation"] = [count |-> 2, cost_usd |-> 100000]

\* C21 witness: summary() returned for the example ledger.
C21_Witness ==
    /\ result.op = "summary"
    /\ ExampleLedger

\* C21 witness for a status outside the known three: summary() returned for
\* a ledger that holds a "cancelled" call.
C21_WitnessOtherStatus ==
    /\ result.op = "summary"
    /\ \E i \in 1 .. Len(calls) : calls[i].status = "cancelled"
    /\ "cancelled" \in DOMAIN result.value[1].by_status

\* C22: the ledger is append-only.  A track call adds exactly one record, at
\* the end; no step removes, reorders or changes a record already there; and
\* summary, export and print_summary leave the ledger and total_cost as
\* they were.
C22_LedgerIsAppendOnly ==
    [][ /\ Len(calls') \in {Len(calls), Len(calls) + 1}
        /\ SubSeq(calls', 1, Len(calls)) = calls
        /\ result'.op = "track"
           => /\ Len(calls') = Len(calls) + 1
              /\ calls'[Len(calls')] = result'.record[1]
        /\ result'.op \in {"summary", "export", "print_summary"}
           => /\ calls' = calls
              /\ total_cost' = total_cost
      ]_vars

\* C22 witness: three different records were tracked with the snapshot
\* written, and export then ran on that ledger.
C22_Witness ==
    /\ result.op = "export"
    /\ Len(calls) = 3
    /\ calls[1] # calls[2]
    /\ calls[2] # calls[3]
    /\ live_data.state = "complete"
    /\ export_file.state = "complete"

\* C25: export writes an object whose summary is summary() of the current
\* ledger; with include_calls true it has the key calls with every record of
\* the ledger once, in insertion order, and with include_calls false it has
\* no key calls.
C25_ExportHoldsSummaryAndCalls ==
    (result.op = "export" /\ ~result.raised)
    => /\ export_file.state = "complete"
       /\ LET data          == export_file.data[1]
              include_calls == result.value[1]
          IN  /\ data.summary = summary(calls, total_cost, budget_usd)
              /\ data.summary.total_calls = Len(calls)
              /\ include_calls
                 => /\ "calls" \in DOMAIN data
                    /\ Len(data.calls) = Len(calls)
                    /\ \A i \in 1 .. Len(calls) : data.calls[i] = calls[i]
              /\ ~include_calls => "calls" \notin DOMAIN data

\* C25 witness: export without the calls returned for a ledger of two
\* different records.
C25_Witness ==
    /\ result.op = "export"
    /\ ~result.raised
    /\ result.value[1] = FALSE
    /\ Len(calls) = 2
    /\ calls[1] # calls[2]
    /\ export_file.state = "complete"

\* C25 witness with the calls: export with include_calls true returned for a
\* ledger of two different records.
C25_WitnessWithCalls ==
    /\ result.op = "export"
    /\ ~result.raised
    /\ result.value[1] = TRUE
    /\ Len(calls) = 2
    /\ calls[1] # calls[2]
    /\ "calls" \in DOMAIN export_file.data[1]

\* C28: a record carries an error message only when its status is not
\* success: no record of the ledger has status "success" and an
\* error_message, whatever error_message the caller passed.
C28_NoMessageOnSuccess ==
    \A i \in 1 .. Len(calls) :
        calls[i].status = "success" => calls[i].error_message \in {NONE, ""}

\* ------------------------------------- claims on the budget and the rollups

\* C23: the budget is advisory.  track is never refused because of the
\* budget (stated here as: on a tracker without a live file, whose track
\* calls no file system failure can end, a paid call is possible in every
\* state below the call bound, whatever budget_usd and total_cost are), and
\* a call is recorded and priced as it would be under budget: the record's
\* cost is the price of its model and dimensions, the record is the last of
\* the ledger, and total_cost is the sum of the recorded costs, above the
\* budget or not.
C23_BudgetIsAdvisory ==
    /\ (Len(calls) < MaxCalls /\ live_file = NONE)
       => ENABLED Track(FLAT_MODEL, "s1_p01", 4200, 1024, 1440, NONE, "success", "ok")
    /\ result.op = "track"
       => LET record == result.record[1]
          IN  /\ calls[Len(calls)] = record
              /\ record.cost_usd
                     = Round(track_cost(record.model, record.image_dimensions[1],
                                        record.image_dimensions[2], record.status), 10)
              /\ total_cost = SumCost(calls)

\* C23 witness: with a budget of 0.04 USD, a paid call was recorded when
\* total_cost already equalled the budget; the total is above the budget and
\* the snapshot shows more than 100 percent used.
C23_Witness ==
    /\ result.op = "track"
    /\ ~result.raised
    /\ budget_usd > 0
    /\ Len(calls) = 2
    /\ calls[1].cost_usd >= budget_usd
    /\ calls[2].cost_usd > 0
    /\ calls[2] = result.record[1]
    /\ total_cost > budget_usd
    /\ live_data.state = "complete"
    /\ live_data.data[1].percent_used > 1000

\* the two rollups have the same keys, and the same count and cost under
\* each key
SameRollup(live, full) ==
    /\ DOMAIN live = DOMAIN full
    /\ \A k \in DOMAIN live :
           /\ live[k].count = full[k].count
           /\ live[k].cost_usd = full[k].cost_usd

\* C24: the by-phase and by-model rollups of the live snapshot written by
\* the last track call agree with those of summary() taken in the same
\* state: the same keys, and under each key the same count and cost.
C24_SnapshotRollupsMatchSummary ==
    (/\ result.op = "summary"
     /\ live_data.state = "complete"
     /\ live_data.data[1].total_calls = Len(calls))
    => /\ SameRollup(live_data.data[1].by_phase, result.value[1].by_phase)
       /\ SameRollup(live_data.data[1].by_model, result.value[1].by_model)

\* C24 witness: summary() returned after two paid calls on different models
\* in different phases, the second of which wrote the snapshot.
C24_Witness ==
    /\ result.op = "summary"
    /\ live_data.state = "complete"
    /\ live_data.data[1].total_calls = 2
    /\ Len(calls) = 2
    /\ Cardinality(DOMAIN live_data.data[1].by_phase) = 2
    /\ Cardinality(DOMAIN live_data.data[1].by_model) = 2
    /\ calls[1].cost_usd > 0
    /\ calls[2].cost_usd > 0

\* ------------------------------------------ further claims on the pricing

\* the price of k billed megapixels on a megapixel-priced model
PriceOfMegapixels(model, k) ==
    IF model \in TieredModels
    THEN PRICING[model].first_mp + (k - 1) * PRICING[model].additional_mp
    ELSE k * PRICING[model].per_mp

\* width x height is a whole number k >= 1 of megapixels
WholeMegapixels(width, height) ==
    /\ width > 0
    /\ height > 0
    /\ (width * height) % 1000000 = 0

\* C26: an image of exactly k * 1,000,000 pixels, k >= 1, is billed as k
\* megapixels, not k + 1, under per-megapixel and under tiered pricing, by
\* calculate_cost and in the records of successful track calls.
C26_WholeMegapixelsAreExact ==
    /\ (/\ price.called
        /\ query.model \in PerMpModels \cup TieredModels
        /\ WholeMegapixels(query.width, query.height))
       => price.cost = PriceOfMegapixels(query.model,
                                         (query.width * query.height) \div 1000000)
    /\ \A i \in Successes :
           LET w == calls[i].image_dimensions[1]
               h == calls[i].image_dimensions[2]
           IN  (calls[i].model \in PerMpModels \cup TieredModels /\ WholeMegapixels(w, h))
               => calls[i].cost_usd
                      = PriceOfMegapixels(calls[i].model, (w * h) \div 1000000)

\* C26 witness: the tiered model priced at 2000x1000, exactly 2 megapixels,
\* for 0.045 USD, directly and by a successful track call.
C26_Witness ==
    /\ price.called
    /\ query.model = TIERED_MODEL
    /\ query.width = 2000
    /\ query.height = 1000
    /\ price.cost = 450000
    /\ \E i \in Successes : calls[i].cost_usd = 450000

\* C27: calculate_cost is a pure function of model, width and height and the
\* pricing table: what it returns is fixed by its arguments whatever the
\* ledger, the total and the live file of the tracker are, it is never
\* negative, and the call changes nothing on the tracker.
C27_CalculateCostIsPure ==
    [][ /\ price'.called
           => /\ price'.cost = calculate_cost(query.model, query.width, query.height)
              /\ price'.cost >= 0
        /\ price' # price
           => UNCHANGED <<calls, total_cost, budget_usd, live_file, live_data>>
      ]_vars

\* C27 witness: a price was returned for a negative width on a tracker that
\* holds two records and a positive total.
C27_Witness ==
    /\ price.called
    /\ query.width < 0
    /\ query.height > 0
    /\ query.model \in PerMpModels
    /\ Len(calls) = 2
    /\ total_cost > 0

\* ------------------------------- claim on the snapshot of concurrent callers

\* C29: when track calls run concurrently on a tracker with a live file,
\* once all of them have returned the live snapshot describes the final
\* ledger: total_calls is the number of records, the total cost is the final
\* total_cost, and last_call is a record counted in the snapshot's totals (a
\* snapshot computed from an older state has not overwritten a newer one).
C29_FinalSnapshotIsCurrent ==
    (live_file # NONE /\ \A t \in Threads : pc[t] = "done")
    => /\ live_data.state = "complete"
       /\ live_data.data[1].total_calls = Len(calls)
       /\ live_data.data[1].total_cost_usd = total_cost
       /\ \E i \in 1 .. live_data.data[1].total_calls :
              Digest(calls[i]) = live_data.data[1].last_call

\* ------------------------------------ claim on the workflow-0.1.0 tracker

\* C30: in the CostTracker of workflow-0.1.0 every generate_panel invocation
\* logs exactly one call, with success true on the path that saves an image
\* and false when the response has no image or an exception occurs; and
\* get_summary reports total_calls equal to the number of logged calls,
\* total_calls = successful_calls + failed_calls and estimated_cost_usd =
\* 0.15 * successful_calls, so failed calls add nothing to the estimate.
C30_PanelCallsLoggedOnce ==
    [][ /\ result'.op = "generate_panel"
           => /\ Len(api_calls') = Len(api_calls) + 1
              /\ SubSeq(api_calls', 1, Len(api_calls)) = api_calls
              /\ api_calls'[Len(api_calls')].success
                     = (result'.value[1].outcome = "image")
              /\ api_calls'[Len(api_calls')].success = result'.value[1].success
        /\ result'.op = "get_summary"
           => LET s == result'.value[1]
              IN  /\ api_calls' = api_calls
                  /\ s.total_calls = Len(api_calls)
                  /\ s.successful_calls
                         = Cardinality({i \in 1 .. Len(api_calls) : api_calls[i].success})
                  /\ s.total_calls = s.successful_calls + s.failed_calls
                  /\ s.estimated_cost_usd = COST_PER_IMAGE * s.successful_calls
      ]_vars

\* C30 witness: get_summary returned after two panels were saved and one
\* generation failed: 3 calls, 2 successful, 1 failed, 0.30 USD.
C30_Witness ==
    /\ result.op = "get_summary"
    /\ Len(api_calls) = 3
    /\ result.value[1].successful_calls = 2
    /\ result.value[1].failed_calls = 1
    /\ result.value[1].estimated_cost_usd = 3000000

====
